---- MODULE Spec2Model ----
(***************************************************************************)
(* Model of src/src/query_cube.js: checkCompatibility, createPipeline,     *)
(* queryCube and createCube, over a JavaScript-like heap.                  *)
(*                                                                         *)
(* Strings are sequences of tokens.  The markers "$", "." and "_" are      *)
(* tokens of their own and field names are one-character tokens, so that   *)
(* String.slice(1) is Tail, a template literal is concatenation and        *)
(* String.replace(".", "_") rewrites the first "." token.  The words the   *)
(* code only ever compares or appends ("sum", "count", "group", ...) are   *)
(* single tokens.                                                          *)
(*                                                                         *)
(* Objects live in a heap (a sequence of cells, a reference is an index);  *)
(* a cell is the ordered sequence of <<key, value>> pairs of the object.   *)
(* Arrays that the code never mutates (the pipeline arrays) are sequences  *)
(* of values; every array expression of the code builds a new one.         *)
(***************************************************************************)
EXTENDS Integers, Sequences, FiniteSets, TLC

VARIABLES
    mode,          \* which entry point the caller runs
    pc,            \* position of the caller
    heap,          \* the JavaScript heap
    input,         \* the caller's pipeline as a tree, as it was at the call
    pipeline,      \* the caller's pipeline array (references into heap)
    ppl,           \* checkCompatibility's local ppl after line 22
    tuples,        \* value returned by checkCompatibility
    err,           \* exception thrown, or "none"
    result,        \* array returned by createPipeline
    dimensions,    \* createCube arguments
    measures,
    cubePipeline,  \* array returned by createCube
    dataset,       \* documents of the raw collection
    cube,          \* documents of the materialized view
    direct,        \* result of the original pipeline on dataset
    viaCube        \* result of the rewritten pipeline on cube

vars == <<mode, pc, heap, input, pipeline, ppl, tuples, err, result,
          dimensions, measures, cubePipeline, dataset, cube, direct, viaCube>>

----------------------------------------------------------------------------
(* Bounds *)

MaxKeys == 2       \* operator keys in one accumulator object of an input
MaxTail == 1       \* stages after the $group stage of an input
MaxDims == 2       \* dimensions passed to createCube
MaxMeasures == 2   \* measures passed to createCube
MaxDocs == 2       \* documents in the raw collection

----------------------------------------------------------------------------
(* JavaScript values *)

Null == [t |-> "null"]
Undefined == [t |-> "undef"]
Num(n) == [t |-> "num", n |-> n]
Bool(b) == [t |-> "bool", b |-> b]
Str(s) == [t |-> "str", s |-> s]
Obj(p) == [t |-> "obj", o |-> p]
Ref(r) == [t |-> "ref", r |-> r]

K_id == <<"_id">>
K_count == <<"count">>
K_group == <<"$", "group">>
K_set == <<"$", "set">>
K_project == <<"$", "project">>
K_out == <<"$", "out">>
K_sum == <<"$", "sum">>
K_divide == <<"$", "divide">>
K_cond == <<"$", "cond">>
K_eq == <<"$", "eq">>

\* An array literal [a, b] as an object with index keys.
Arr2(a, b) == Obj(<< <<(<<"0">>), a>>, <<(<<"1">>), b>> >>)

\* Object.keys / lodash values / toPairs of an ordered object.
ObjectKeys(o) == [i \in 1..Len(o) |-> o[i][1]]

values(o) == [i \in 1..Len(o) |-> o[i][2]]

HasKey(o, k) == \E i \in 1..Len(o) : o[i][1] = k

\* o[k]
Get(o, k) ==
    IF HasKey(o, k)
    THEN o[CHOOSE i \in 1..Len(o) : o[i][1] = k][2]
    ELSE Undefined

\* o[k] = v : an existing key keeps its position
Put(o, k, v) ==
    IF HasKey(o, k)
    THEN [i \in 1..Len(o) |-> IF o[i][1] = k THEN <<k, v>> ELSE o[i]]
    ELSE Append(o, <<k, v>>)

\* delete o[k]
Delete(o, k) == SelectSeq(o, LAMBDA p : p[1] # k)

\* { ...a, ...b }
RECURSIVE Spread(_, _)
Spread(a, b) ==
    IF b = <<>> THEN a
    ELSE Spread(Put(a, Head(b)[1], Head(b)[2]), Tail(b))

\* lodash zipObject(keys, vals)
RECURSIVE zipObject(_, _)
zipObject(ks, vs) ==
    IF ks = <<>> THEN <<>>
    ELSE Spread(<< <<Head(ks), Head(vs)>> >>, zipObject(Tail(ks), Tail(vs)))

----------------------------------------------------------------------------
(* Heap *)

\* Builds the object tree v in heap h, the fields of an object in their
\* order; references inside v are kept as they are.  Returns [val, heap].
RECURSIVE Alloc(_, _)
Alloc(h, v) ==
    IF v.t # "obj" THEN [val |-> v, heap |-> h]
    ELSE LET F[i \in 0..Len(v.o)] ==
                 IF i = 0 THEN [fields |-> <<>>, heap |-> h]
                 ELSE LET prev == F[i - 1]
                          a == Alloc(prev.heap, v.o[i][2])
                      IN  [fields |-> Append(prev.fields, <<v.o[i][1], a.val>>),
                           heap |-> a.heap]
             done == F[Len(v.o)]
         IN  [val |-> Ref(Len(done.heap) + 1),
              heap |-> Append(done.heap, done.fields)]

\* Builds an array of trees.  Returns [arr, heap].
RECURSIVE AllocAll(_, _)
AllocAll(h, trees) ==
    IF trees = <<>> THEN [arr |-> <<>>, heap |-> h]
    ELSE LET a == Alloc(h, Head(trees))
             rest == AllocAll(a.heap, Tail(trees))
         IN  [arr |-> <<a.val>> \o rest.arr, heap |-> rest.heap]

\* JSON.stringify : the tree a value denotes.
RECURSIVE Serialize(_, _)
Serialize(h, v) ==
    IF v.t = "ref"
    THEN Obj([i \in 1..Len(h[v.r]) |-> <<h[v.r][i][1], Serialize(h, h[v.r][i][2])>>])
    ELSE v

SerializeAll(h, arr) == [i \in 1..Len(arr) |-> Serialize(h, arr[i])]

\* The objects reachable from a value.
RECURSIVE Reach(_, _)
Reach(h, v) ==
    IF v.t = "ref"
    THEN {v.r} \cup UNION {Reach(h, h[v.r][i][2]) : i \in 1..Len(h[v.r])}
    ELSE {}

ReachAll(h, arr) == UNION {Reach(h, arr[i]) : i \in 1..Len(arr)}

\* ppl left as it is: no copy is made
JsonCloneAliased(h, arr) == [heap |-> h, arr |-> arr]

\* JSON.parse(JSON.stringify(ppl))
JsonClone(h, arr) == AllocAll(h, SerializeAll(h, arr))

----------------------------------------------------------------------------
(* checkCompatibility *)

SupportedOps == {K_sum, <<"$", "min">>, <<"$", "max">>, <<"$", "avg">>}

\* Object.keys(val)[0]
FirstKey(h, val) ==
    IF val.t = "ref" /\ Len(h[val.r]) > 0 THEN Str(h[val.r][1][1]) ELSE Undefined

isObject(v) == v.t = "ref"

\* lines 41-50, for one [field, val] pair; ok is FALSE when meas.slice throws
tupleOf(h, field, val) ==
    LET op0 == Tail(FirstKey(h, val).s)
        meas0 == h[val.r][1][2]
        isCount == isObject(meas0) \/ meas0 = Num(1)
        op == IF isCount THEN K_count ELSE op0
        meas == IF isCount THEN Str(<<"$", "count">>) ELSE meas0
    IN  IF meas.t # "str" THEN [ok |-> FALSE, t |-> <<>>]
        ELSE [ok |-> TRUE, t |-> <<field, op, Tail(meas.s)>>]

\* The whole function: [heap, ppl, err, tuples]
checkCompatibility(h, arr) ==
    IF Len(arr) = 0
    THEN [heap |-> h, ppl |-> arr, err |-> "TypeError", tuples |-> <<>>]
    ELSE IF FirstKey(h, arr[1]) # Str(K_group)
    THEN [heap |-> h, ppl |-> arr, err |-> "NotAGroupPipeline", tuples |-> <<>>]
    ELSE
      LET c == JsonClone(h, arr)
          g == Get(c.heap[c.arr[1].r], K_group)
          h2 == [c.heap EXCEPT ![g.r] = Delete(@, K_id)]
          group == h2[g.r]
          valid == \A i \in 1..Len(group) :
                      /\ FirstKey(h2, group[i][2]) # Undefined
                      /\ FirstKey(h2, group[i][2]).s \in SupportedOps
          ts == [i \in 1..Len(group) |-> tupleOf(h2, group[i][1], group[i][2])]
      IN  IF ~valid
          THEN [heap |-> h2, ppl |-> c.arr, err |-> "UnsupportedOperator", tuples |-> <<>>]
          ELSE IF \E i \in 1..Len(group) : ~ts[i].ok
          THEN [heap |-> h2, ppl |-> c.arr, err |-> "TypeError", tuples |-> <<>>]
          ELSE [heap |-> h2, ppl |-> c.arr, err |-> "none",
                tuples |-> [i \in 1..Len(group) |-> ts[i].t]]

----------------------------------------------------------------------------
(* createPipeline *)

\* `$${m}_${a}`
Dollar(m, sep, a) == Str(<<"$">> \o m \o <<sep>> \o a)

\* the expression of measSet[`${m}_avg`]
avgExpr(m) ==
    Obj(<< <<K_divide, Arr2(Dollar(m, "_", <<"sum">>), Str(<<"$", "count">>))>> >>)

sumCount == Obj(<< <<K_sum, Str(<<"$", "count">>)>> >>)

\* one iteration of tuples.forEach over the builders b = [g, s, p]
step(b, t) ==
    LET f == t[1]
        a == t[2]
        m == t[3]
        p0 == Put(b.p, f, Dollar(m, "_", a))
    IN  IF a = K_count
        THEN [g |-> Put(b.g, K_count, sumCount),
              s |-> b.s,
              p |-> Put(p0, f, Str(<<"$", "count">>))]
        ELSE IF a = <<"avg">>
        THEN [g |-> Put(Put(b.g, m \o <<"_", "sum">>,
                            Obj(<< <<K_sum, Dollar(m, ".", <<"sum">>)>> >>)),
                        K_count, sumCount),
              s |-> Put(b.s, m \o <<"_", "avg">>, avgExpr(m)),
              p |-> p0]
        ELSE [g |-> Put(b.g, m \o <<"_">> \o a,
                        Obj(<< <<(<<"$">> \o a), Dollar(m, ".", a)>> >>)),
              s |-> b.s,
              p |-> p0]

RECURSIVE builders(_, _)
builders(b, ts) ==
    IF ts = <<>> THEN b ELSE builders(step(b, Head(ts)), Tail(ts))

\* oldGroup._id : the value held by the caller's object, not a copy
oldGroupId(h, arr) == Get(h[Get(h[arr[1].r], K_group).r], K_id)

\* [group, ...(isEmpty(measSet) ? [] : [set]), project, ...ppl.slice(1)]
createPipeline(h, arr, ts) ==
    LET b == builders([g |-> <<>>, s |-> <<>>, p |-> << <<K_id, Num(1)>> >>], ts)
        group == Obj(<< <<K_group,
                          Obj(Spread(<< <<K_id, oldGroupId(h, arr)>> >>, b.g))>> >>)
        set == Obj(<< <<K_set, Obj(b.s)>> >>)
        project == Obj(<< <<K_project, Obj(b.p)>> >>)
        fresh == AllocAll(h, <<group>> \o (IF b.s = <<>> THEN <<>> ELSE <<set>>)
                             \o <<project>>)
    IN  [heap |-> fresh.heap, arr |-> fresh.arr \o Tail(arr)]

----------------------------------------------------------------------------
(* createCube *)

\* d.replace(".", "_") : a string pattern replaces the first occurrence only
RECURSIVE replaceDot(_)
replaceDot(d) ==
    IF d = <<>> THEN <<>>
    ELSE IF Head(d) = "." THEN <<"_">> \o Tail(d)
    ELSE <<Head(d)>> \o replaceDot(Tail(d))

dashedDimensions(dims) == [i \in 1..Len(dims) |-> replaceDot(dims[i])]

dollaredDimensions(dims) == [i \in 1..Len(dims) |-> Str(<<"$">> \o dims[i])]

\* { $cond: { if: `$${measure}`, then: 1, else: 0 } }
condExpr(m) ==
    Obj(<< <<K_cond,
             Obj(<< <<(<<"if">>), Str(<<"$">> \o m)>>,
                    <<(<<"then">>), Num(1)>>,
                    <<(<<"else">>), Num(0)>> >>)>> >>)

\* mapMeasure without the `${measure}_count` accumulator
mapMeasureNoCount(m) ==
    << <<m \o <<"_", "sum">>, Obj(<< <<K_sum, Str(<<"$">> \o m)>> >>)>>,
       <<m \o <<"_", "min">>, Obj(<< <<(<<"$", "min">>), Str(<<"$">> \o m)>> >>)>>,
       <<m \o <<"_", "max">>, Obj(<< <<(<<"$", "max">>), Str(<<"$">> \o m)>> >>)>> >>

mapMeasure(m) ==
    << <<m \o <<"_", "sum">>, Obj(<< <<K_sum, Str(<<"$">> \o m)>> >>)>>,
       <<m \o <<"_", "min">>, Obj(<< <<(<<"$", "min">>), Str(<<"$">> \o m)>> >>)>>,
       <<m \o <<"_", "max">>, Obj(<< <<(<<"$", "max">>), Str(<<"$">> \o m)>> >>)>>,
       <<m \o <<"_", "count">>, Obj(<< <<K_sum, condExpr(m)>> >>)>> >>

nestedMeasure(m) ==
    << <<m, Obj(<< <<(<<"sum">>), Dollar(m, "_", <<"sum">>)>>,
                   <<(<<"min">>), Dollar(m, "_", <<"min">>)>>,
                   <<(<<"max">>), Dollar(m, "_", <<"max">>)>>,
                   <<(<<"count">>), Dollar(m, "_", <<"count">>)>> >>)>> >>

\* measures.reduce((acc, val) => ({ ...acc, ...f(val) }), {})
RECURSIVE mappedMeasures(_)
mappedMeasures(ms) ==
    IF ms = <<>> THEN <<>>
    ELSE Spread(mappedMeasures(SubSeq(ms, 1, Len(ms) - 1)), mapMeasure(ms[Len(ms)]))

RECURSIVE nestedMeasures(_)
nestedMeasures(ms) ==
    IF ms = <<>> THEN <<>>
    ELSE Spread(nestedMeasures(SubSeq(ms, 1, Len(ms) - 1)), nestedMeasure(ms[Len(ms)]))

_idDimensions(dims) ==
    [i \in 1..Len(dims) |-> Str(<<"$", "_id", ".">> \o dashedDimensions(dims)[i])]

unwrappedDimensions(dims) == zipObject(dims, _idDimensions(dims))

createCube(dims, ms, outCollection) ==
    << Obj(<< <<K_group,
                Obj(Spread(<< <<K_id, Obj(zipObject(dashedDimensions(dims),
                                                   dollaredDimensions(dims)))>>,
                              <<K_count, Obj(<< <<K_sum, Num(1)>> >>)>> >>,
                           mappedMeasures(ms)))>> >>),
       Obj(<< <<K_project,
                Obj(Spread(Spread(<< <<K_id, Num(0)>>, <<K_count, Num(1)>> >>,
                                  nestedMeasures(ms)),
                           unwrappedDimensions(dims)))>> >>),
       Obj(<< <<K_out, outCollection>> >>) >>

----------------------------------------------------------------------------
(* The aggregation engine that executes the pipelines (db.x.aggregate).    *)
(* Documents and pipelines are trees; a collection is a sequence of        *)
(* documents.  A number is an integer Num(n) or a fraction in lowest terms.*)

RECURSIVE Gcd(_, _)
Gcd(a, b) == IF b = 0 THEN a ELSE Gcd(b, a % b)

\* n / d for d > 0
Quotient(n, d) ==
    LET g == Gcd(n, d)
    IN  IF d \div g = 1 THEN Num(n \div g)
        ELSE [t |-> "frac", q |-> <<n \div g, d \div g>>]

DivError == [t |-> "error"]

\* the segments of a dotted path
RECURSIVE Segments(_, _)
Segments(toks, cur) ==
    IF toks = <<>> THEN <<cur>>
    ELSE IF Head(toks) = "." THEN <<cur>> \o Segments(Tail(toks), <<>>)
    ELSE Segments(Tail(toks), Append(cur, Head(toks)))

RECURSIVE Lookup(_, _)
Lookup(doc, segs) ==
    LET v == Get(doc, Head(segs))
    IN  IF Len(segs) = 1 THEN v
        ELSE IF v.t = "obj" THEN Lookup(v.o, Tail(segs))
        ELSE Undefined

Truthy(v) == ~(v.t \in {"null", "undef"} \/ v = Num(0) \/ v = Bool(FALSE))

Nullish(v) == v.t \in {"null", "undef"}

RECURSIVE EvalExpr(_, _)
EvalExpr(e, doc) ==
    IF e.t = "str"
    THEN IF e.s # <<>> /\ Head(e.s) = "$"
         THEN Lookup(doc, Segments(Tail(e.s), <<>>))
         ELSE e
    ELSE IF e.t # "obj" THEN e
    ELSE IF HasKey(e.o, K_cond)
    THEN LET c == Get(e.o, K_cond).o
         IN  IF Truthy(EvalExpr(Get(c, <<"if">>), doc))
             THEN EvalExpr(Get(c, <<"then">>), doc)
             ELSE EvalExpr(Get(c, <<"else">>), doc)
    ELSE IF HasKey(e.o, K_eq)
    THEN LET a == Get(e.o, K_eq).o
         IN  Bool(EvalExpr(a[1][2], doc) = EvalExpr(a[2][2], doc))
    ELSE IF HasKey(e.o, K_divide)
    THEN LET a == Get(e.o, K_divide).o
             x == EvalExpr(a[1][2], doc)
             y == EvalExpr(a[2][2], doc)
         IN  IF x.t = "error" \/ y.t = "error" THEN DivError
             ELSE IF Nullish(x) \/ Nullish(y) THEN Null
             ELSE IF y = Num(0) THEN DivError
             ELSE Quotient(x.n, y.n)
    ELSE \* an object of sub-expressions; missing values leave no field
         LET F[i \in 0..Len(e.o)] ==
                 IF i = 0 THEN <<>>
                 ELSE LET x == EvalExpr(e.o[i][2], doc)
                      IN  IF x.t = "undef" THEN F[i - 1]
                          ELSE Append(F[i - 1], <<e.o[i][1], x>>)
         IN  Obj(F[Len(e.o)])

\* the numbers among the values of an accumulator's operand over a group
Numbers(operand, docs) ==
    SelectSeq([i \in 1..Len(docs) |-> EvalExpr(operand, docs[i].o)],
              LAMBDA x : x.t = "num")

RECURSIVE SumSeq(_)
SumSeq(xs) == IF xs = <<>> THEN 0 ELSE Head(xs).n + SumSeq(Tail(xs))

\* $sum, $min, $max, $avg over the documents of one group
Accumulate(acc, docs) ==
    LET op == acc[1][1]
        xs == Numbers(acc[1][2], docs)
    IN  IF op = K_sum THEN Num(SumSeq(xs))
        ELSE IF xs = <<>> THEN Null
        ELSE IF op = <<"$", "min">>
        THEN xs[CHOOSE i \in 1..Len(xs) : \A j \in 1..Len(xs) : xs[i].n <= xs[j].n]
        ELSE IF op = <<"$", "max">>
        THEN xs[CHOOSE i \in 1..Len(xs) : \A j \in 1..Len(xs) : xs[i].n >= xs[j].n]
        ELSE Quotient(SumSeq(xs), Len(xs))

GroupKey(idExpr, doc) ==
    LET k == EvalExpr(idExpr, doc.o) IN IF k.t = "undef" THEN Null ELSE k

\* the distinct keys, in order of first appearance
RECURSIVE Distinct(_, _)
Distinct(ks, seen) ==
    IF ks = <<>> THEN seen
    ELSE IF \E i \in 1..Len(seen) : seen[i] = Head(ks)
    THEN Distinct(Tail(ks), seen)
    ELSE Distinct(Tail(ks), Append(seen, Head(ks)))

GroupStage(body, docs) ==
    LET idExpr == Get(body, K_id)
        accs == Delete(body, K_id)
        keys == Distinct([i \in 1..Len(docs) |-> GroupKey(idExpr, docs[i])], <<>>)
        members(k) == SelectSeq(docs, LAMBDA d : GroupKey(idExpr, d) = k)
    IN  [i \in 1..Len(keys) |->
            Obj(<< <<K_id, keys[i]>> >> \o
                [j \in 1..Len(accs) |->
                    <<accs[j][1], Accumulate(accs[j][2].o, members(keys[i]))>>])]

\* $project: 0 drops, 1 keeps, anything else is an expression
ProjectDoc(body, doc) ==
    LET F[i \in 0..Len(body)] ==
            IF i = 0 THEN <<>>
            ELSE LET k == body[i][1]
                     e == body[i][2]
                     x == IF e = Num(1) THEN Get(doc, k) ELSE EvalExpr(e, doc)
                 IN  IF e = Num(0) \/ x.t = "undef" THEN F[i - 1]
                     ELSE Append(F[i - 1], <<k, x>>)
    IN  Obj(F[Len(body)])

\* $set
SetDoc(body, doc) ==
    LET F[i \in 0..Len(body)] ==
            IF i = 0 THEN doc
            ELSE Put(F[i - 1], body[i][1], EvalExpr(body[i][2], doc))
    IN  Obj(F[Len(body)])

Failed(docs) ==
    \E i \in 1..Len(docs) : \E j \in 1..Len(docs[i].o) : docs[i].o[j][2].t = "error"

\* one stage on a collection: [ok, docs]
RunStage(stage, c) ==
    LET kind == stage.o[1][1]
        body == stage.o[1][2]
    IN  IF ~c.ok THEN c
        ELSE IF kind = K_group
        THEN [ok |-> TRUE, docs |-> GroupStage(body.o, c.docs)]
        ELSE IF kind = K_project
        THEN [ok |-> TRUE,
              docs |-> [i \in 1..Len(c.docs) |-> ProjectDoc(body.o, c.docs[i].o)]]
        ELSE IF kind = K_set
        THEN LET out == [i \in 1..Len(c.docs) |-> SetDoc(body.o, c.docs[i].o)]
             IN  IF Failed(out) THEN [ok |-> FALSE, docs |-> <<>>]
                 ELSE [ok |-> TRUE, docs |-> out]
        ELSE c   \* $out writes the collection it is given

RECURSIVE Aggregate(_, _)
Aggregate(stages, c) ==
    IF stages = <<>> THEN c
    ELSE Aggregate(Tail(stages), RunStage(Head(stages), c))

\* a result as the set of its documents, each the set of its fields
AsSet(r) ==
    [ok |-> r.ok,
     docs |-> {{r.docs[i].o[j] : j \in 1..Len(r.docs[i].o)} : i \in 1..Len(r.docs)}]

----------------------------------------------------------------------------
(* Inputs *)

W == <<"w">>

D == <<"d">>

RefW == Str(<<"$">> \o W)

\* injective sequences of length n over S
DistinctSeqs(S, n) ==
    {q \in [1..n -> S] : \A i, j \in 1..n : i # j => q[i] # q[j]}

OpNames == {"sum", "min", "max", "avg", "push"}

\* the { $cond: ... } operand createCube itself writes for a measure
CondOperand == condExpr(W)

Operands == {RefW, Num(1), Num(2), Str(W), Null, Bool(TRUE), CondOperand}

SingleAccumulators ==
    {Obj(<< <<(<<"$", o>>), x>> >>) : o \in OpNames, x \in Operands}

MultiAccumulators ==
    UNION {{Obj([i \in 1..n |-> <<(<<"$", ks[i]>>), RefW>>]) :
               ks \in DistinctSeqs({"sum", "avg", "push"}, n)} : n \in 2..MaxKeys}

Accumulators == {Obj(<<>>)} \cup SingleAccumulators \cup MultiAccumulators

FieldNames == << <<"x">>, <<"y">> >>

GroupStage1(id, as) ==
    Obj(<< <<K_group,
             Obj(<< <<K_id, id>> >> \o
                 [i \in 1..Len(as) |-> <<FieldNames[i], as[i]>>])>> >>)

TailStages ==
    << Obj(<< <<(<<"$", "sort">>), Obj(<< <<FieldNames[1], Num(-1)>> >>)>> >>),
       Obj(<< <<(<<"$", "limit">>), Num(3)>> >>),
       Obj(<< <<(<<"$", "skip">>), Num(1)>> >>) >>

Tails == {SubSeq(TailStages, 1, k) : k \in {k \in 0..MaxTail : k <= Len(TailStages)}}

MatchStage == Obj(<< <<(<<"$", "match">>), Obj(<< <<D, Num(1)>> >>)>> >>)

QueryIds == {Null, Str(<<"$">> \o D), Obj(<< <<D, Str(<<"$">> \o D)>> >>)}

RoundIds == {Null, Str(<<"$">> \o D)}

RoundAccumulators ==
    {Obj(<< <<(<<"$", o>>), RefW>> >>) : o \in {"sum", "min", "max", "avg"}}
    \cup {Obj(<< <<K_sum, Num(1)>> >>)}

\* raw documents: d is 1 or 2; w is missing, 0, 1 or 2
DocList ==
    [i \in 1..8 |->
        Obj(<< <<D, Num(1 + ((i - 1) % 2))>> >> \o
            (IF i <= 2 THEN <<>> ELSE << <<W, Num(((i - 1) \div 2) - 1)>> >>))]

SortedIndexes(n) ==
    {q \in [1..n -> 1..8] : \A j \in 1..(n - 1) : q[j] <= q[j + 1]}

DimNames ==
    {<<"a">>, <<"a", ".", "b">>, <<"a", "_", "b">>, <<"a", ".", "b", ".", "c">>,
     K_count, K_id, W}

MeasureNames == {W, <<"v">>, K_count, K_id}

NoRun == [ok |-> TRUE, docs |-> {}]

----------------------------------------------------------------------------
(* The caller *)

InitCommon ==
    /\ ppl = <<>>
    /\ tuples = <<>>
    /\ err = "none"
    /\ result = <<>>
    /\ cubePipeline = <<>>
    /\ cube = <<>>
    /\ direct = NoRun
    /\ viaCube = NoRun

InitQuery ==
    /\ mode = "queryCube"
    /\ pc = "query"
    /\ \/ \E n \in 0..Len(FieldNames), tl \in Tails :
             \E id \in QueryIds, as \in [1..n -> Accumulators] :
                input = <<GroupStage1(id, as)>> \o tl
       \/ input \in {<<>>, <<Obj(<<>>)>>}
       \/ \E tl \in Tails : input = <<MatchStage>> \o tl
    /\ heap = AllocAll(<<>>, input).heap
    /\ pipeline = AllocAll(<<>>, input).arr
    /\ dimensions = <<>>
    /\ measures = <<>>
    /\ dataset = <<>>

InitCube ==
    /\ mode = "createCube"
    /\ pc = "cube"
    /\ input = <<>>
    /\ heap = <<>>
    /\ pipeline = <<>>
    /\ \E n \in 1..MaxDims : dimensions \in DistinctSeqs(DimNames, n)
    /\ \E n \in 0..MaxMeasures : measures \in DistinctSeqs(MeasureNames, n)
    /\ dataset = <<>>

InitRound ==
    /\ mode = "roundTrip"
    /\ pc = "cube"
    /\ \E n \in 1..Len(FieldNames) :
          \E id \in RoundIds, as \in [1..n -> RoundAccumulators] :
             input = <<GroupStage1(id, as)>>
    /\ heap = AllocAll(<<>>, input).heap
    /\ pipeline = AllocAll(<<>>, input).arr
    /\ dimensions = <<D>>
    /\ measures = <<W>>
    /\ \E n \in 0..MaxDocs :
          \E ix \in SortedIndexes(n) : dataset = [j \in 1..n |-> DocList[ix[j]]]

Init == InitCommon /\ (InitQuery \/ InitCube \/ InitRound)

\* const cubePipeline = cubes.createCube(dimensions, measures, viewName)
CreateCube ==
    /\ pc = "cube"
    /\ cubePipeline' = createCube(dimensions, measures, Str(<<"cube">>))
    /\ pc' = IF mode = "roundTrip" THEN "materialize" ELSE "done"
    /\ UNCHANGED <<mode, heap, input, pipeline, ppl, tuples, err, result,
                   dimensions, measures, dataset, cube, direct, viaCube>>

\* db.collection.aggregate(cubePipeline)
Materialize ==
    /\ pc = "materialize"
    /\ cube' = Aggregate(cubePipeline, [ok |-> TRUE, docs |-> dataset]).docs
    /\ pc' = "query"
    /\ UNCHANGED <<mode, heap, input, pipeline, ppl, tuples, err, result,
                   dimensions, measures, cubePipeline, dataset, direct, viaCube>>

\* queryCube, line 116
CheckCompatibility ==
    /\ pc = "query"
    /\ LET r == checkCompatibility(heap, pipeline)
       IN  /\ heap' = r.heap
           /\ ppl' = r.ppl
           /\ err' = r.err
           /\ tuples' = r.tuples
           /\ pc' = IF r.err = "none" THEN "checked" ELSE "failed"
    /\ UNCHANGED <<mode, input, pipeline, result, dimensions, measures,
                   cubePipeline, dataset, cube, direct, viaCube>>

\* queryCube, line 117
CreatePipeline ==
    /\ pc = "checked"
    /\ LET r == createPipeline(heap, pipeline, tuples)
       IN  /\ heap' = r.heap
           /\ result' = r.arr
    /\ pc' = "rewritten"
    /\ UNCHANGED <<mode, input, pipeline, ppl, tuples, err, dimensions, measures,
                   cubePipeline, dataset, cube, direct, viaCube>>

\* the caller goes on to change an object of the pipeline it was returned
CallerMutatesResult ==
    /\ pc = "rewritten"
    /\ mode = "queryCube"
    /\ \E r \in ReachAll(heap, result) :
           heap' = [heap EXCEPT ![r] = Put(@, <<"z">>, Num(0))]
    /\ pc' = "mutated"
    /\ UNCHANGED <<mode, input, pipeline, ppl, tuples, err, result, dimensions,
                   measures, cubePipeline, dataset, cube, direct, viaCube>>

\* db.dmv.aggregate(p)
AggregateDataset ==
    /\ pc = "rewritten"
    /\ mode = "roundTrip"
    /\ direct' = AsSet(Aggregate(SerializeAll(heap, pipeline),
                                 [ok |-> TRUE, docs |-> dataset]))
    /\ pc' = "ranDirect"
    /\ UNCHANGED <<mode, heap, input, pipeline, ppl, tuples, err, result, dimensions,
                   measures, cubePipeline, dataset, cube, viaCube>>

\* db.dmv.cube.aggregate(cubes.queryCube(p))
AggregateCube ==
    /\ pc = "ranDirect"
    /\ viaCube' = AsSet(Aggregate(SerializeAll(heap, result),
                                  [ok |-> TRUE, docs |-> cube]))
    /\ pc' = "done"
    /\ UNCHANGED <<mode, heap, input, pipeline, ppl, tuples, err, result, dimensions,
                   measures, cubePipeline, dataset, cube, direct>>

Next ==
    \/ CreateCube
    \/ Materialize
    \/ CheckCompatibility
    \/ CreatePipeline
    \/ CallerMutatesResult
    \/ AggregateDataset
    \/ AggregateCube

Spec == Init /\ [][Next]_vars

----------------------------------------------------------------------------
(* Vocabulary of the properties *)

\* the first stage of the caller's pipeline is a $group stage
IsGroupFirst ==
    /\ input # <<>>
    /\ input[1].o # <<>>
    /\ input[1].o[1][1] = K_group

\* the accumulator fields of the caller's $group stage, as given
InputFields == Delete(input[1].o[1][2].o, K_id)

\* checkCompatibility has returned or thrown
AfterCheck == mode # "createCube" /\ pc \notin {"cube", "materialize", "query"}

\* the pipeline queryCube returned, as a tree
Rewritten == SerializeAll(heap, result)

RewrittenGroup == Rewritten[1].o[1][2].o

RewrittenSet ==
    IF Len(Rewritten) >= 2 /\ Rewritten[2].o[1][1] = K_set
    THEN Rewritten[2].o[1][2].o
    ELSE <<>>

AvgMeasures == {tuples[i][3] : i \in {j \in 1..Len(tuples) : tuples[j][2] = <<"avg">>}}

\* a group all of whose counts and sums are 0
ZeroGroup(m) ==
    << <<K_count, Num(0)>>,
       <<m \o <<"_", "sum">>, Num(0)>>,
       <<m \o <<"_", "count">>, Num(0)>> >>

\* the two arguments of the division of an average expression, guarded or not
RECURSIVE Division(_)
Division(e) ==
    IF e.t # "obj" THEN <<>>
    ELSE IF HasKey(e.o, K_divide) THEN values(Get(e.o, K_divide).o)
    ELSE IF HasKey(e.o, K_cond) THEN Division(Get(Get(e.o, K_cond).o, <<"else">>))
    ELSE <<>>

CubeGroup == cubePipeline[1].o[1][2].o

CubeProject == cubePipeline[2].o[1][2].o

ReplaceAllDots(d) == [i \in 1..Len(d) |-> IF d[i] = "." THEN "_" ELSE d[i]]

Suffixes == {<<"sum">>, <<"min">>, <<"max">>, <<"count">>}

Range(q) == {q[i] : i \in 1..Len(q)}

----------------------------------------------------------------------------
(* Properties *)

\* an operand that is a direct field reference or a count pattern
ValidOperand(x) ==
    \/ x.t = "obj"
    \/ x = Num(1)
    \/ (x.t = "str" /\ x.s # <<>> /\ Head(x.s) = "$")

\* every operand of the caller's accumulators is a field reference or a count
\* pattern
WellFormedOperands ==
    \A i \in 1..Len(InputFields) :
        \A x \in Range(values(InputFields[i][2].o)) : ValidOperand(x)

\* C1: round trip.  The rewritten pipeline run on the cube built by
\* createCube gives the same result as the original pipeline run on the
\* dataset, for sum, min, max, avg and count, missing and falsy measures
\* included.
C1_RoundTrip ==
    (mode = "roundTrip" /\ pc = "done") => viaCube = direct

\* C2: zero-count safety.  For every avg tuple (of a pipeline with
\* well-formed operands) the `<m>_avg` expression of the $set stage is a safe
\* divide: on a group whose count is 0 it yields null, never a division
\* error.
C2_SafeDivide ==
    (pc = "rewritten" /\ WellFormedOperands) =>
        \A m \in AvgMeasures :
            /\ HasKey(RewrittenSet, m \o <<"_", "avg">>)
            /\ EvalExpr(Get(RewrittenSet, m \o <<"_", "avg">>), ZeroGroup(m)) = Null

\* C3: for an accepted pipeline with an accumulator avg($m) the rewritten
\* $group computes `<m>_sum` from `$<m>.sum` and `<m>_count` from
\* `$<m>.count`, and `<m>_avg` divides `<m>_sum` by `<m>_count`.
C3_AvgFromMeasureCount ==
    (pc = "rewritten" /\ WellFormedOperands) =>
        \A m \in AvgMeasures :
            /\ Get(RewrittenGroup, m \o <<"_", "sum">>)
                  = Obj(<< <<K_sum, Dollar(m, ".", <<"sum">>)>> >>)
            /\ Get(RewrittenGroup, m \o <<"_", "count">>)
                  = Obj(<< <<K_sum, Dollar(m, ".", <<"count">>)>> >>)
            /\ Division(Get(RewrittenSet, m \o <<"_", "avg">>))
                  = <<Dollar(m, "_", <<"sum">>), Dollar(m, "_", <<"count">>)>>

\* C4: once checkCompatibility or queryCube has returned or thrown, the
\* caller's pipeline is structurally what it was at the call, `_id` and
\* every accumulator field of its first stage included.
C4_CallerPipelineUnchanged ==
    (AfterCheck /\ pc # "mutated") => SerializeAll(heap, pipeline) = input

\* C4 witness: validation succeeded on a $group with `_id` and accumulators,
\* and the working copy has lost its `_id`.
C4_Witness ==
    /\ pc = "checked"
    /\ tuples # <<>>
    /\ HasKey(input[1].o[1][2].o, K_id)
    /\ ~HasKey(heap[Get(heap[ppl[1].r], K_group).r], K_id)

\* C5: no object reachable from the returned pipeline is reachable from the
\* caller's pipeline, so a later change to the returned pipeline leaves the
\* caller's pipeline as it was.
C5_NoAliasing ==
    (mode = "queryCube" /\ pc \in {"rewritten", "mutated"}) =>
        /\ ReachAll(heap, result) \cap ReachAll(heap, pipeline) = {}
        /\ SerializeAll(heap, pipeline) = input

\* C6: a $group-first pipeline in which some accumulator has an operator
\* key outside {$sum, $min, $max, $avg}, alone or among several keys, fails
\* with UnsupportedOperator and yields no tuples.
C6_UnsupportedOperator ==
    (/\ AfterCheck
     /\ IsGroupFirst
     /\ \E i \in 1..Len(InputFields) :
            \E k \in Range(ObjectKeys(InputFields[i][2].o)) : k \notin SupportedOps)
    => (err = "UnsupportedOperator" /\ tuples = <<>>)

\* C7: a $group-first pipeline with supported operators only, in which some
\* operand is neither a direct field reference nor a count pattern, fails
\* with InvalidOperand and yields no tuples.
C7_InvalidOperand ==
    (/\ AfterCheck
     /\ IsGroupFirst
     /\ \A i \in 1..Len(InputFields) :
            /\ InputFields[i][2].o # <<>>
            /\ Range(ObjectKeys(InputFields[i][2].o)) \subseteq SupportedOps
     /\ \E j \in 1..Len(InputFields) :
            \E x \in Range(values(InputFields[j][2].o)) : ~ValidOperand(x))
    => (err = "InvalidOperand" /\ tuples = <<>>)

\* C8: a pipeline that is empty or whose first stage is not a $group stage
\* fails with NotAGroupPipeline, with no tuples and no rewritten pipeline.
C8_NotAGroupPipeline ==
    (AfterCheck /\ ~IsGroupFirst)
    => (err = "NotAGroupPipeline" /\ tuples = <<>> /\ result = <<>>)

\* the shape claimed of createCube's stages
CubeShape ==
    /\ Len(Get(CubeGroup, K_id).o) = Len(dimensions)
    /\ Len(Delete(CubeGroup, K_id)) = 1 + 4 * Len(measures)
    /\ Range(ObjectKeys(Delete(CubeGroup, K_id)))
          = {K_count} \cup {m \o <<"_">> \o sfx : m \in Range(measures), sfx \in Suffixes}
    /\ Get(CubeProject, K_id) = Num(0)
    /\ Len(Delete(CubeProject, K_id)) = 1 + Len(measures) + Len(dimensions)

Injective(q) == \A i, j \in 1..Len(q) : i # j => q[i] # q[j]

\* C9 as stated: every non-empty list of distinct dimensions and of distinct
\* measures gives |dimensions| `_id` keys, 1 + 4*|measures| accumulators and
\* 1 + |measures| + |dimensions| projected fields besides the dropped `_id`.
C9_Original ==
    (cubePipeline # <<>> /\ dimensions # <<>> /\ measures # <<>>
       /\ Injective(dimensions) /\ Injective(measures))
    => CubeShape

\* the names createCube is given do not meet in one object
NoNameCollision ==
    /\ Injective(dashedDimensions(dimensions))
    /\ Injective(dimensions \o measures \o <<K_count, K_id>>)

\* C9 amended: the same, for lists whose encoded dimension keys are pairwise
\* distinct and whose dimension names, measure names, `count` and `_id` are
\* pairwise distinct.
C9_CubeShape ==
    (cubePipeline # <<>> /\ dimensions # <<>> /\ measures # <<>> /\ NoNameCollision)
    => CubeShape

\* C9 witness: a cube over two dimensions, one of them dotted, and two
\* measures, none of the names colliding.
C9_Witness ==
    /\ cubePipeline # <<>>
    /\ Len(dimensions) = 2
    /\ Len(measures) = 2
    /\ \E i \in 1..2 : "." \in Range(dimensions[i])
    /\ NoNameCollision

\* C10: the `_id` key of every dimension is its name with every "."
\* replaced by "_", that key maps to `$<name>`, and the $project stage lifts
\* `$_id.<key>` to the root under the original name (for dimensions whose
\* encoded names do not collide).
C10_EveryDotReplaced ==
    (cubePipeline # <<>> /\ Injective([j \in 1..Len(dimensions) |->
                                          ReplaceAllDots(dimensions[j])])
       /\ NoNameCollision)
    => \A i \in 1..Len(dimensions) :
          LET key == ReplaceAllDots(dimensions[i])
          IN  /\ "." \notin Range(key)
              /\ Get(Get(CubeGroup, K_id).o, key) = Str(<<"$">> \o dimensions[i])
              /\ Get(CubeProject, dimensions[i]) = Str(<<"$", "_id", ".">> \o key)

====
